---- MODULE Spec2Model ----
(***************************************************************************)
(* Row operations and row-echelon reduction of malg: the plain Matrix, the *)
(* AugmentedMatrix [left|right] and the generic procedure                  *)
(* RowOps::transform_to_row_echelon_form that drives either of them.       *)
(*                                                                         *)
(* Rows and columns are indexed from 0 as in the source.  The scalar type  *)
(* is instantiated as the prime field of integers modulo Modulus, a type   *)
(* with exact field arithmetic.  A panic is modelled by the result record  *)
(* [ok |-> FALSE, val |-> the object as the panic leaves it].              *)
(***************************************************************************)
EXTENDS Integers, Sequences, FiniteSets

VARIABLES self, init, pc, i, j, k, pivot_found, passes, log, call

vars == <<self, init, pc, i, j, k, pivot_found, passes, log, call>>

(***************************************************************************)
(* Bounds of the model                                                     *)
(***************************************************************************)
MaxRows == 3
MaxCols == 3
MaxRightCols == 2
MaxCells == 6
OpsMaxCells == 4

(***************************************************************************)
(* The scalar type: Zero, One, +, -, *, / of the field Z/Modulus           *)
(***************************************************************************)
Modulus == 5
Scalars == 0..(Modulus - 1)
ScalarZero == 0
ScalarOne == 1
is_zero(a) == a = ScalarZero
ScalarAdd(a, b) == (a + b) % Modulus
ScalarSub(a, b) == (a + Modulus - b) % Modulus
ScalarMul(a, b) == (a * b) % Modulus
\* a / b for b # 0; division by the additive identity is a failure of the
\* scalar type and is handled where the division is made.
ScalarDiv_swapped(a, b) == ScalarMul(b, CHOOSE x \in Scalars : ScalarMul(a, x) = ScalarOne)
ScalarDiv(a, b) == ScalarMul(a, CHOOSE x \in Scalars : ScalarMul(b, x) = ScalarOne)

(***************************************************************************)
(* Matrix<M, N, T>: data is [[T; N]; M]                                    *)
(***************************************************************************)
Rows(m) == 0..(m.M - 1)
Cols(m) == 0..(m.N - 1)
MatrixNew(m, n, data) == [kind |-> "Matrix", M |-> m, N |-> n, data |-> data]
Matrix_n_rows(m) == m.M
Matrix_n_cols(m) == m.N

Ok(v) == [ok |-> TRUE, val |-> v]
Panic(v) == [ok |-> FALSE, val |-> v]

Matrix_swap_rows_same_index_unchecked(m, a, b) ==
    IF a = b THEN Ok(m)
    ELSE IF a >= m.M \/ b >= m.M THEN Panic(m)
    ELSE Ok([m EXCEPT !.data = [r \in Rows(m) |->
                 IF r = a THEN m.data[b] ELSE IF r = b THEN m.data[a] ELSE m.data[r]]])

\* self.data.swap(i, j): both indices are bounds-checked, then exchanged.
Matrix_swap_rows(m, a, b) ==
    IF a >= m.M \/ b >= m.M
    THEN Panic(m)
    ELSE Ok([m EXCEPT !.data = [r \in Rows(m) |->
                 IF r = a THEN m.data[b] ELSE IF r = b THEN m.data[a] ELSE m.data[r]]])

\* self.data[i].iter_mut().for_each(|entry| *entry = *entry * a)
Matrix_scale_row(m, r, a) ==
    IF r >= m.M
    THEN Panic(m)
    ELSE Ok([m EXCEPT !.data[r] = [c \in Cols(m) |-> ScalarMul(m.data[r][c], a)]])

Matrix_add_rows_swapped(m, r, s, a) ==
    IF s >= m.M \/ r >= m.M
    THEN Panic(m)
    ELSE Ok([m EXCEPT !.data[r] =
                [c \in Cols(m) |-> ScalarAdd(ScalarMul(m.data[r][c], a), m.data[s][c])]])

Matrix_add_rows_unscaled(m, r, s, a) ==
    IF s >= m.M \/ r >= m.M
    THEN Panic(m)
    ELSE Ok([m EXCEPT !.data[r] =
                [c \in Cols(m) |-> ScalarAdd(m.data[r][c], m.data[s][c])]])

\* add_row is collected from row j first (index j checked), then row i is
\* indexed (index i checked) and updated entry by entry from add_row.
Matrix_add_rows(m, r, s, a) ==
    IF s >= m.M
    THEN Panic(m)
    ELSE LET add_row == [c \in Cols(m) |-> ScalarMul(m.data[s][c], a)]
         IN  IF r >= m.M
             THEN Panic(m)
             ELSE Ok([m EXCEPT !.data[r] =
                         [c \in Cols(m) |-> ScalarAdd(m.data[r][c], add_row[c])]])

\* self.data[i].into()
Matrix_get_row(m, r) ==
    IF r >= m.M THEN Panic(m) ELSE Ok(m.data[r])

(***************************************************************************)
(* AugmentedMatrix<M, N, P, T> { left, right }                             *)
(***************************************************************************)
AugmentedMatrixNew(a, b) == [kind |-> "AugmentedMatrix", left |-> a, right |-> b]
get_left(x) == x.left
get_right(x) == x.right

\* l is the result of the operation on the left part, r of the same operation
\* on the right part, reached only when the left one returned.
Both(x, l, r) ==
    IF ~l.ok THEN Panic(x)
    ELSE IF ~r.ok THEN Panic([x EXCEPT !.left = l.val])
    ELSE Ok([x EXCEPT !.left = l.val, !.right = r.val])

AugmentedMatrix_swap_rows(x, a, b) ==
    Both(x, Matrix_swap_rows(x.left, a, b), Matrix_swap_rows(x.right, a, b))

AugmentedMatrix_scale_row_left_only(x, r, a) ==
    LET l == Matrix_scale_row(x.left, r, a)
    IN  IF l.ok THEN Ok([x EXCEPT !.left = l.val]) ELSE Panic(x)

AugmentedMatrix_scale_row(x, r, a) ==
    Both(x, Matrix_scale_row(x.left, r, a), Matrix_scale_row(x.right, r, a))

AugmentedMatrix_add_rows(x, r, s, a) ==
    Both(x, Matrix_add_rows(x.left, r, s, a), Matrix_add_rows(x.right, r, s, a))

AugmentedMatrix_get_row_right(x, r) ==
    LET l == Matrix_get_row(x.right, r)
    IN  IF l.ok THEN l ELSE Panic(x)

AugmentedMatrix_get_row(x, r) ==
    LET l == Matrix_get_row(x.left, r)
    IN  IF l.ok THEN l ELSE Panic(x)

AugmentedMatrix_n_rows(x) == x.left.M
AugmentedMatrix_n_cols(x) == x.left.N

(***************************************************************************)
(* trait RowOps: dispatch on the implementing type                         *)
(***************************************************************************)
IsMatrix(x) == x.kind = "Matrix"
swap_rows(x, a, b) ==
    IF IsMatrix(x) THEN Matrix_swap_rows(x, a, b) ELSE AugmentedMatrix_swap_rows(x, a, b)
scale_row(x, r, a) ==
    IF IsMatrix(x) THEN Matrix_scale_row(x, r, a) ELSE AugmentedMatrix_scale_row(x, r, a)
add_rows(x, r, s, a) ==
    IF IsMatrix(x) THEN Matrix_add_rows(x, r, s, a) ELSE AugmentedMatrix_add_rows(x, r, s, a)
get_row(x, r) ==
    IF IsMatrix(x) THEN Matrix_get_row(x, r) ELSE AugmentedMatrix_get_row(x, r)
n_rows(x) == IF IsMatrix(x) THEN Matrix_n_rows(x) ELSE AugmentedMatrix_n_rows(x)
n_cols(x) == IF IsMatrix(x) THEN Matrix_n_cols(x) ELSE AugmentedMatrix_n_cols(x)

\* get_row(r)[c]: the row is fetched, then indexed; either step may panic.
RowEntry(x, r, c) ==
    LET row == get_row(x, r)
    IN  IF ~row.ok THEN Panic(x)
        ELSE IF c \notin DOMAIN row.val THEN Panic(x)
        ELSE Ok(row.val[c])

(***************************************************************************)
(* The calls made so far, in order                                         *)
(***************************************************************************)
NoCall == [op |-> "none", i |-> 0, j |-> 0, a |-> 0]
SwapCall(a, b) == [op |-> "swap_rows", i |-> a, j |-> b, a |-> 0]
ScaleCall(r, a) == [op |-> "scale_row", i |-> r, j |-> 0, a |-> a]
AddCall(r, s, a) == [op |-> "add_rows", i |-> r, j |-> s, a |-> a]
GetCall(r) == [op |-> "get_row", i |-> r, j |-> 0, a |-> 0]

\* One logged call applied to an object
ApplyCall(x, c) ==
    IF c.op = "swap_rows" THEN swap_rows(x, c.i, c.j)
    ELSE IF c.op = "scale_row" THEN scale_row(x, c.i, c.a)
    ELSE IF c.op = "add_rows" THEN add_rows(x, c.i, c.j, c.a)
    ELSE Ok(x)

(***************************************************************************)
(* RowOps::transform_to_row_echelon_form, one step of its loops at a time  *)
(***************************************************************************)
Fail == /\ pc' = "panicked"
        /\ UNCHANGED <<self, init, i, j, k, pivot_found, passes, log, call>>

BeginColumn_from_zero ==
    /\ pc = "for_j"
    /\ j < n_cols(self)
    /\ pivot_found' = FALSE
    /\ k' = 0
    /\ passes' = passes + 1
    /\ pc' = "for_k"
    /\ UNCHANGED <<self, init, i, j, log, call>>

\* for j in 0..self.n_cols() { let mut pivot_found = false; for k in i.. {
BeginColumn ==
    /\ pc = "for_j"
    /\ j < n_cols(self)
    /\ pivot_found' = FALSE
    /\ k' = i
    /\ passes' = passes + 1
    /\ pc' = "for_k"
    /\ UNCHANGED <<self, init, i, j, log, call>>

\* the column range is exhausted: the procedure returns
Return ==
    /\ pc = "for_j"
    /\ j >= n_cols(self)
    /\ pc' = "done"
    /\ UNCHANGED <<self, init, i, j, k, pivot_found, passes, log, call>>

\* if !self.get_row(k)[j].is_zero() is false: next k
SkipZero ==
    /\ pc = "for_k"
    /\ k < n_rows(self)
    /\ LET e == RowEntry(self, k, j)
       IN  IF ~e.ok THEN Fail
           ELSE /\ is_zero(e.val)
                /\ k' = k + 1
                /\ UNCHANGED <<self, init, pc, i, j, pivot_found, passes, log, call>>

Eliminate_plus ==
    /\ pc = "for_k"
    /\ k < n_rows(self)
    /\ pivot_found
    /\ LET e == RowEntry(self, k, j)
       IN  /\ e.ok
           /\ ~is_zero(e.val)
           /\ LET a == ScalarMul(ScalarOne, e.val)
                  res == add_rows(self, k, i, a)
              IN  /\ self' = res.val
                  /\ log' = Append(log, AddCall(k, i, a))
                  /\ pc' = IF res.ok THEN "for_k" ELSE "panicked"
                  /\ k' = IF res.ok THEN k + 1 ELSE k
           /\ UNCHANGED <<init, i, j, pivot_found, passes, call>>

\* pivot_found: self.add_rows(k, i, zero - one * leading_entry)
Eliminate ==
    /\ pc = "for_k"
    /\ k < n_rows(self)
    /\ pivot_found
    /\ LET e == RowEntry(self, k, j)
       IN  IF ~e.ok THEN Fail
           ELSE /\ ~is_zero(e.val)
                /\ LET leading_entry == RowEntry(self, k, j).val
                       a == ScalarSub(ScalarZero, ScalarMul(ScalarOne, leading_entry))
                       res == add_rows(self, k, i, a)
                   IN  /\ self' = res.val
                       /\ log' = Append(log, AddCall(k, i, a))
                       /\ pc' = IF res.ok THEN "for_k" ELSE "panicked"
                       /\ k' = IF res.ok THEN k + 1 ELSE k
                /\ UNCHANGED <<init, i, j, pivot_found, passes, call>>

PivotSwap_no_flag ==
    /\ pc = "for_k"
    /\ k < n_rows(self)
    /\ ~pivot_found
    /\ LET e == RowEntry(self, k, j)
       IN  /\ e.ok
           /\ ~is_zero(e.val)
           /\ LET res == swap_rows(self, i, k)
              IN  /\ self' = res.val
                  /\ log' = Append(log, SwapCall(i, k))
                  /\ pc' = IF res.ok THEN "scale" ELSE "panicked"
           /\ UNCHANGED <<init, i, j, k, pivot_found, passes, call>>

PivotSwap_no_swap ==
    /\ pc = "for_k"
    /\ k < n_rows(self)
    /\ ~pivot_found
    /\ LET e == RowEntry(self, k, j)
       IN  /\ e.ok
           /\ ~is_zero(e.val)
           /\ pc' = "scale"
           /\ pivot_found' = TRUE
           /\ UNCHANGED <<self, init, i, j, k, passes, log, call>>

\* no pivot yet: pivot_found = true; self.swap_rows(i, k)
PivotSwap ==
    /\ pc = "for_k"
    /\ k < n_rows(self)
    /\ ~pivot_found
    /\ LET e == RowEntry(self, k, j)
       IN  IF ~e.ok THEN Fail
           ELSE /\ ~is_zero(e.val)
                /\ LET res == swap_rows(self, i, k)
                   IN  /\ self' = res.val
                       /\ log' = Append(log, SwapCall(i, k))
                       /\ pc' = IF res.ok THEN "scale" ELSE "panicked"
                /\ pivot_found' = TRUE
                /\ UNCHANGED <<init, i, j, k, passes, call>>

PivotScale_skipped ==
    /\ pc = "scale"
    /\ pc' = "for_k"
    /\ k' = k + 1
    /\ UNCHANGED <<self, init, i, j, pivot_found, passes, log, call>>

\* let pivot_value = self.get_row(i)[j]; self.scale_row(i, one / pivot_value)
PivotScale ==
    /\ pc = "scale"
    /\ LET e == RowEntry(self, i, j)
       IN  IF ~e.ok \/ is_zero(e.val) THEN Fail
           ELSE LET pivot_value == e.val
                    a == ScalarDiv(ScalarOne, pivot_value)
                    res == scale_row(self, i, a)
                IN  /\ self' = res.val
                    /\ log' = Append(log, ScaleCall(i, a))
                    /\ pc' = IF res.ok THEN "for_k" ELSE "panicked"
                    /\ k' = IF res.ok THEN k + 1 ELSE k
                    /\ UNCHANGED <<init, i, j, pivot_found, passes, call>>

\* the row range is exhausted: if pivot_found { i += 1 }, next j
EndColumn ==
    /\ pc = "for_k"
    /\ k >= n_rows(self)
    /\ i' = IF pivot_found THEN i + 1 ELSE i
    /\ j' = j + 1
    /\ pc' = "for_j"
    /\ UNCHANGED <<self, init, k, pivot_found, passes, log, call>>

Next ==
    \/ BeginColumn
    \/ Return
    \/ SkipZero
    \/ Eliminate
    \/ PivotSwap
    \/ PivotScale
    \/ EndColumn

(***************************************************************************)
(* RowOps::transform_to_row_echelon_form as a function of the object: the  *)
(* same loops, run to completion.  The result is [ok, val, log].           *)
(***************************************************************************)
RECURSIVE RowLoop(_, _, _, _)
\* for k in .. : st = [ok, val, log, pivot_found], p = the pivot row i
RowLoop(st, p, c, r) ==
    IF ~st.ok \/ r >= n_rows(st.val)
    THEN st
    ELSE LET e == RowEntry(st.val, r, c)
         IN  IF ~e.ok THEN [st EXCEPT !.ok = FALSE]
             ELSE IF is_zero(e.val) THEN RowLoop(st, p, c, r + 1)
             ELSE IF st.pivot_found
             THEN LET a == ScalarSub(ScalarZero, ScalarMul(ScalarOne, e.val))
                      res == add_rows(st.val, r, p, a)
                  IN  RowLoop([st EXCEPT !.ok = res.ok, !.val = res.val,
                                         !.log = Append(st.log, AddCall(r, p, a))],
                              p, c, r + 1)
             ELSE LET sw == swap_rows(st.val, p, r)
                      pv == RowEntry(sw.val, p, c)
                      logSw == Append(st.log, SwapCall(p, r))
                  IN  IF ~sw.ok \/ ~pv.ok \/ is_zero(pv.val)
                      THEN [st EXCEPT !.ok = FALSE, !.val = sw.val, !.log = logSw,
                                      !.pivot_found = TRUE]
                      ELSE LET a == ScalarDiv(ScalarOne, pv.val)
                               sc == scale_row(sw.val, p, a)
                           IN  RowLoop([ok |-> sc.ok, val |-> sc.val,
                                        log |-> Append(logSw, ScaleCall(p, a)),
                                        pivot_found |-> TRUE],
                                       p, c, r + 1)

RECURSIVE ColumnLoop(_, _, _)
\* for j in 0..n_cols(): st = [ok, val, log], p = the pivot row i
ColumnLoop(st, p, c) ==
    IF ~st.ok \/ c >= n_cols(st.val)
    THEN st
    ELSE LET after == RowLoop([ok |-> TRUE, val |-> st.val, log |-> st.log,
                               pivot_found |-> FALSE], p, c, p)
         IN  ColumnLoop([ok |-> after.ok, val |-> after.val, log |-> after.log],
                        IF after.pivot_found THEN p + 1 ELSE p, c + 1)

transform_to_row_echelon_form(x) ==
    ColumnLoop([ok |-> TRUE, val |-> x, log |-> <<>>], 0, 0)

(***************************************************************************)
(* The objects the reduction is started on                                 *)
(***************************************************************************)
Shapes == {s \in (1..MaxRows) \X (0..MaxCols) : s[1] * s[2] <= MaxCells}
AugShapes == {s \in (1..MaxRows) \X (1..MaxCols) \X (1..MaxRightCols) :
                 s[1] * (s[2] + s[3]) <= MaxCells}
Grids(m, n) == [0..(m - 1) -> [0..(n - 1) -> Scalars]]

\* let mut i = 0; and the column loop is about to start
Start(x) ==
    /\ self = x
    /\ init = x
    /\ pc = "for_j"
    /\ i = 0
    /\ j = 0
    /\ k = 0
    /\ pivot_found = FALSE
    /\ passes = 0
    /\ log = <<>>
    /\ call = NoCall

\* Matrix::new(data)
Init ==
    \/ \E s \in Shapes : \E d \in Grids(s[1], s[2]) :
           Start(MatrixNew(s[1], s[2], d))
    \/ \E n \in 1..MaxRows : \E diag \in [0..(n - 1) -> Scalars] :
           /\ n <= MaxCols
           /\ Start(MatrixNew(n, n, [r \in 0..(n - 1) |-> [c \in 0..(n - 1) |->
                                        IF r = c THEN diag[r] ELSE ScalarZero]]))

\* AugmentedMatrix::new(a, b), also reached as a.augment(&b)
InitAug ==
    \E s \in AugShapes : \E a \in Grids(s[1], s[2]) : \E b \in Grids(s[1], s[3]) :
        Start(AugmentedMatrixNew(MatrixNew(s[1], s[2], a), MatrixNew(s[1], s[3], b)))

Spec == Init /\ [][Next]_vars
SpecAug == InitAug /\ [][Next]_vars
\* the procedure on either implementing type
InitAny == Init \/ InitAug
SpecAny == InitAny /\ [][Next]_vars
\* The procedure is straight-line sequential code: a step that can be taken is taken.
FairSpec == Spec /\ WF_vars(Next)

(***************************************************************************)
(* Single calls of the row operations by a caller, with the indices of the *)
(* rows and the two indices after the last row                             *)
(***************************************************************************)
OpsShapes == {s \in (1..MaxRows) \X (1..MaxCols) : s[1] * s[2] <= OpsMaxCells}
OpsAugShapes == {s \in (1..MaxRows) \X (1..MaxCols) \X (1..MaxRightCols) :
                    s[1] * (s[2] + s[3]) <= OpsMaxCells}
Indices == 0..(n_rows(self) + 1)

Idle(x) ==
    /\ self = x
    /\ init = x
    /\ pc = "idle"
    /\ i = 0
    /\ j = 0
    /\ k = 0
    /\ pivot_found = FALSE
    /\ passes = 0
    /\ log = <<>>
    /\ call = NoCall

InitOps ==
    \/ \E s \in OpsShapes : \E d \in Grids(s[1], s[2]) :
           Idle(MatrixNew(s[1], s[2], d))
    \/ \E s \in OpsAugShapes : \E a \in Grids(s[1], s[2]) : \E b \in Grids(s[1], s[3]) :
           Idle(AugmentedMatrixNew(MatrixNew(s[1], s[2], a), MatrixNew(s[1], s[3], b)))

\* The call c made on self: it returns or it panics
Called(c, res) ==
    /\ pc = "idle"
    /\ call' = c
    /\ log' = Append(log, c)
    /\ pc' = IF res.ok THEN "returned" ELSE "panicked"
    /\ UNCHANGED <<init, i, j, k, pivot_found, passes>>

CallSwapRows ==
    \E a \in Indices, b \in Indices :
        LET res == swap_rows(self, a, b)
        IN  Called(SwapCall(a, b), res) /\ self' = res.val

CallScaleRow ==
    \E r \in Indices, a \in Scalars :
        LET res == scale_row(self, r, a)
        IN  Called(ScaleCall(r, a), res) /\ self' = res.val

CallAddRows ==
    \E r \in Indices, s \in Indices, a \in Scalars :
        LET res == add_rows(self, r, s, a)
        IN  Called(AddCall(r, s, a), res) /\ self' = res.val

\* get_row takes &self: the object is not written; the row is the result
CallGetRow ==
    \E r \in Indices :
        LET res == get_row(self, r)
        IN  /\ Called([GetCall(r) EXCEPT !.a = IF res.ok THEN res.val ELSE 0], res)
            /\ self' = IF res.ok THEN self ELSE res.val

NextOps ==
    \/ CallSwapRows
    \/ CallScaleRow
    \/ CallAddRows
    \/ CallGetRow

SpecOps == InitOps /\ [][NextOps]_vars

(***************************************************************************)
(* SquareMatrix<N, T>::trace, called on a square matrix                    *)
(***************************************************************************)
RECURSIVE TraceLoop(_, _, _)
\* for i in 1..N { trace = trace * self.data[i][i]; }
TraceLoop(m, acc, n) ==
    IF n >= m.N THEN acc
    ELSE TraceLoop(m, ScalarMul(acc, m.data[n][n]), n + 1)

\* let mut trace = self.data[0][0]; the loop; trace
trace(m) ==
    IF m.N = 0 THEN Panic(m) ELSE Ok(TraceLoop(m, m.data[0][0], 1))

TraceCall(t) == [op |-> "trace", i |-> 0, j |-> 0, a |-> t]

\* SquareMatrix::<N, T>::new(data): every square matrix of up to MaxCells
\* entries and every diagonal matrix of up to MaxRows rows
InitTrace ==
    \/ \E n \in 1..MaxRows : \E d \in Grids(n, n) :
           /\ n * n <= MaxCells
           /\ Idle(MatrixNew(n, n, d))
    \/ \E n \in 1..MaxRows : \E diag \in [0..(n - 1) -> Scalars] :
           Idle(MatrixNew(n, n, [r \in 0..(n - 1) |-> [c \in 0..(n - 1) |->
                                   IF r = c THEN diag[r] ELSE ScalarZero]]))

\* trace takes &self: the object is not written; the scalar is the result
CallTrace ==
    LET res == trace(self)
    IN  /\ Called(TraceCall(IF res.ok THEN res.val ELSE 0), res)
        /\ UNCHANGED self

NextTrace == CallTrace

SpecTrace == InitTrace /\ [][NextTrace]_vars

(***************************************************************************)
(* Notions the properties are stated with                                  *)
(***************************************************************************)
Min(a, b) == IF a <= b THEN a ELSE b
Done == pc = "done"
NonZeroRow(m, r) == \E c \in Cols(m) : m.data[r][c] # 0
ZeroRow(m, r) == \A c \in Cols(m) : m.data[r][c] = 0
\* the column of the leftmost nonzero entry of a nonzero row
LeadCol(m, r) == CHOOSE c \in Cols(m) :
                     /\ m.data[r][c] # 0
                     /\ \A d \in Cols(m) : d < c => m.data[r][d] = 0
IsRowEchelon(m) ==
    /\ \A r \in Rows(m) : NonZeroRow(m, r) => m.data[r][LeadCol(m, r)] = 1
    /\ \A r \in Rows(m), s \in Rows(m) :
           r < s /\ NonZeroRow(m, s) => NonZeroRow(m, r) /\ LeadCol(m, r) < LeadCol(m, s)
    /\ \A r \in Rows(m), s \in Rows(m) : ZeroRow(m, r) /\ r < s => ZeroRow(m, s)

\* the rank: the row space has Modulus^rank vectors
RECURSIVE Combine(_, _, _, _)
Combine(m, coef, c, r) ==
    IF r >= m.M THEN 0
    ELSE (coef[r] * m.data[r][c] + Combine(m, coef, c, r + 1)) % Modulus
RowSpace(m) == {[c \in Cols(m) |-> Combine(m, coef, c, 0)] : coef \in [Rows(m) -> Scalars]}
Rank(m) == CHOOSE n \in 0..m.M : Cardinality(RowSpace(m)) = Modulus ^ n
\* some combination of the rows with a nonzero coefficient is the zero vector
RowsDependent(m) ==
    \E coef \in [Rows(m) -> Scalars] :
        /\ \E r \in Rows(m) : coef[r] # 0
        /\ \A c \in Cols(m) : Combine(m, coef, c, 0) = 0
\* the first M columns of a matrix with N >= M
LeadingBlock(m) ==
    MatrixNew(m.M, m.M, [r \in Rows(m) |-> [c \in Rows(m) |-> m.data[r][c]]])
UnitDiagonalZeroBelow(m) ==
    /\ \A r \in Rows(m) : m.data[r][r] = 1
    /\ \A r \in Rows(m), s \in Rows(m) : s > r => m.data[s][r] = 0
IsDiagonalNonZero(m) ==
    /\ m.M = m.N
    /\ \A r \in Rows(m), c \in Cols(m) : (m.data[r][c] # 0) <=> (r = c)
Identity(n) ==
    MatrixNew(n, n, [r \in 0..(n - 1) |-> [c \in 0..(n - 1) |-> IF r = c THEN 1 ELSE 0]])

\* the logged calls applied in order to a plain matrix
RECURSIVE Replay(_, _)
Replay(m, lg) ==
    IF lg = <<>> THEN Ok(m)
    ELSE LET first == ApplyCall(m, Head(lg))
         IN  IF first.ok THEN Replay(first.val, Tail(lg)) ELSE first

\* the row indices of a call are rows of an object with m rows
InRange(c, m) ==
    /\ c.i < m
    /\ (c.op \in {"swap_rows", "add_rows"} => c.j < m)

\* the run of the loops one step at a time ends where the function ends
StepwiseAgrees ==
    Done => LET run == transform_to_row_echelon_form(init)
            IN  run.ok /\ run.val = self /\ run.log = log

(***************************************************************************)
(* C1: after transform_to_row_echelon_form returns, the matrix is in row   *)
(* echelon form: every nonzero row leads with 1, each lead is strictly     *)
(* right of the lead above, zero rows are below all nonzero rows.          *)
(***************************************************************************)
C1_RowEchelonForm == Done => IsRowEchelon(self)

C1_Witness ==
    /\ Done
    /\ self.M = 3 /\ self.N = 2
    /\ \A r \in Rows(init), c \in Cols(init) : init.data[r][c] > 1
    /\ ZeroRow(self, 2)
    /\ NonZeroRow(self, 1)

(***************************************************************************)
(* C2: reducing [A|B] leaves the left part equal to the reduction of A     *)
(* alone, by the same sequence of calls, and the right part equal to B     *)
(* after that same sequence of swap_rows/scale_row/add_rows calls.         *)
(***************************************************************************)
C2_AugmentedFollowsLeft ==
    Done => LET alone == transform_to_row_echelon_form(get_left(init))
                carried == Replay(get_right(init), log)
            IN  /\ alone.ok
                /\ get_left(self) = alone.val
                /\ log = alone.log
                /\ carried.ok
                /\ get_right(self) = carried.val

C2_Witness ==
    /\ Done
    /\ get_left(self) # get_left(init)
    /\ get_right(self) # get_right(init)
    /\ \E n \in 1..Len(log) : log[n].op = "swap_rows" /\ log[n].i # log[n].j
    /\ \E n \in 1..Len(log) : log[n].op = "add_rows"
    /\ \E n \in 1..Len(log) : log[n].op = "scale_row" /\ log[n].a > 1

(***************************************************************************)
(* C3: an in-range swap_rows, scale_row or add_rows on [A|B] gives the     *)
(* left part A after that call on A alone and the right part B after that  *)
(* call on B alone, with the same indices and scalar.                      *)
(***************************************************************************)
C3_AugmentedOpOnBothParts ==
    (/\ ~IsMatrix(init)
     /\ call.op \in {"swap_rows", "scale_row", "add_rows"}
     /\ InRange(call, n_rows(init)))
    => /\ pc = "returned"
       /\ get_left(self) = ApplyCall(get_left(init), call).val
       /\ get_right(self) = ApplyCall(get_right(init), call).val

C3_Witness ==
    /\ pc = "returned"
    /\ ~IsMatrix(init)
    /\ call.op = "add_rows"
    /\ call.i # call.j
    /\ get_left(self) # get_left(init)
    /\ get_right(self) # get_right(init)

(***************************************************************************)
(* C4 as claimed: for every matrix of full row rank (rank M, N >= M) the   *)
(* reduction yields entry (r, r) = 1 for every row r and entry (k, r) = 0  *)
(* for every k > r.                                                        *)
(***************************************************************************)
C4_FullRowRankUnitDiagonal ==
    (Done /\ init.N >= init.M /\ Rank(init) = init.M) => UnitDiagonalZeroBelow(self)

(***************************************************************************)
(* C4 as amended: for every matrix with N >= M whose first M columns are   *)
(* linearly independent (the leading M-by-M block has rank M) the          *)
(* reduction yields entry (r, r) = 1 for every row r and entry (k, r) = 0  *)
(* for every k > r.                                                        *)
(***************************************************************************)
C4_LeadingBlockUnitDiagonal ==
    (Done /\ init.N >= init.M /\ ~RowsDependent(LeadingBlock(init)))
    => UnitDiagonalZeroBelow(self)

C4_Witness ==
    /\ Done
    /\ init.M = 2 /\ init.N = 3
    /\ Rank(LeadingBlock(init)) = init.M
    /\ init.data[0][0] > 1
    /\ \E n \in 1..Len(log) : log[n].op = "add_rows"
    /\ UnitDiagonalZeroBelow(self)

(***************************************************************************)
(* C5 as claimed: for every matrix whose rank is strictly less than its    *)
(* column count, the reduction leaves at least one all-zero row.           *)
(***************************************************************************)
C5_RankBelowColsZeroRow ==
    (Done /\ Rank(init) < init.N) => \E r \in Rows(self) : ZeroRow(self, r)

(***************************************************************************)
(* C5 as amended: for every matrix whose rank is strictly less than its    *)
(* row count, the reduction leaves at least one all-zero row.              *)
(***************************************************************************)
C5_RankBelowRowsZeroRow ==
    (Done /\ RowsDependent(init)) => \E r \in Rows(self) : ZeroRow(self, r)

C5_Witness ==
    /\ Done
    /\ init.M = 3 /\ init.N = 2
    /\ Rank(init) < init.M
    /\ \A r \in Rows(init), c \in Cols(init) : init.data[r][c] # 0
    /\ \E r \in Rows(self) : ZeroRow(self, r)

(***************************************************************************)
(* C6: reducing a matrix that is already in row echelon form leaves every  *)
(* entry unchanged; so reducing twice gives what reducing once gives.      *)
(***************************************************************************)
C6_Idempotent ==
    Done => /\ IsRowEchelon(init) => self = init
            /\ transform_to_row_echelon_form(self).val = self

C6_Witness ==
    /\ Done
    /\ IsRowEchelon(init)
    /\ init.M = 2 /\ init.N = 3
    /\ Rank(init) = 2
    /\ \E c \in Cols(init) : init.data[0][c] > 1
    /\ init.data[0][0] = 0
    /\ self = init

(***************************************************************************)
(* C7 as claimed: the reduction ends after exactly n_cols() column passes  *)
(* and issues at most n_rows() * n_cols() row operations.                  *)
(***************************************************************************)
C7_AtMostRowsTimesCols ==
    Done => /\ passes = n_cols(self)
            /\ Len(log) <= n_rows(self) * n_cols(self)

(***************************************************************************)
(* C7 as amended: the reduction terminates, after exactly n_cols() column  *)
(* passes, and issues at most n_rows() * n_cols() + min(n_rows(),          *)
(* n_cols()) row operations (a pivot costs a swap_rows and a scale_row).   *)
(***************************************************************************)
C7_TerminatesWithinBound ==
    /\ <>Done
    /\ [](Done => passes = n_cols(self))
    /\ [](Len(log) <= n_rows(self) * n_cols(self)
                        + Min(n_rows(self), n_cols(self)))

C7_Witness ==
    /\ Done
    /\ passes = 2
    /\ n_rows(self) = 2
    /\ Len(log) > n_rows(self) * n_cols(self)

(***************************************************************************)
(* C8: a square diagonal matrix with all diagonal entries nonzero reduces  *)
(* to the identity matrix of the same size.                                *)
(***************************************************************************)
C8_DiagonalToIdentity ==
    (Done /\ IsDiagonalNonZero(init)) => self = Identity(init.M)

C8_Witness ==
    /\ Done
    /\ IsDiagonalNonZero(init)
    /\ init.M = 3
    /\ \A r \in Rows(init) : init.data[r][r] > 1
    /\ self = Identity(3)

(***************************************************************************)
(* C9: an in-range add_rows(i, j, a) on a matrix makes every entry of row  *)
(* i the old row[i] + a * old row[j] and leaves every other row as it was  *)
(* (row j too when i # j); with i = j row i becomes old row[i] * (1 + a).  *)
(***************************************************************************)
C9_AddRows ==
    (IsMatrix(init) /\ call.op = "add_rows" /\ InRange(call, n_rows(init)))
    => /\ pc = "returned"
       /\ self.M = init.M /\ self.N = init.N
       /\ \A r \in Rows(init), c \in Cols(init) :
              self.data[r][c] =
                  IF r = call.i
                  THEN (init.data[call.i][c] + call.a * init.data[call.j][c]) % Modulus
                  ELSE init.data[r][c]
       /\ call.i = call.j =>
              \A c \in Cols(init) :
                  self.data[call.i][c] = (init.data[call.i][c] * (1 + call.a)) % Modulus

C9_Witness ==
    /\ pc = "returned"
    /\ IsMatrix(init)
    /\ call.op = "add_rows"
    /\ call.i = call.j
    /\ call.a > 1
    /\ self.data[call.i] # init.data[call.i]

(***************************************************************************)
(* C10: on a matrix and on an augmented matrix with M rows, swap_rows,     *)
(* scale_row, add_rows and get_row with i or j >= M fail (also with        *)
(* i = j), and no entry of the matrix or of either part has been modified. *)
(***************************************************************************)
C10_OutOfRangeFailsUnmodified ==
    (call.op # "none" /\ ~InRange(call, n_rows(init)))
    => pc = "panicked" /\ self = init

C10_Witness ==
    /\ pc = "panicked"
    /\ ~IsMatrix(init)
    /\ call.op = "swap_rows"
    /\ call.i = call.j
    /\ self = init

\* the sum of the diagonal entries data[0][0] + ... + data[N-1][N-1]
RECURSIVE DiagonalSum(_, _)
DiagonalSum(m, n) ==
    IF n >= m.N THEN 0 ELSE (m.data[n][n] + DiagonalSum(m, n + 1)) % Modulus

(***************************************************************************)
(* C11: for every N-by-N square matrix, trace() returns the sum of the     *)
(* diagonal entries data[0][0] + data[1][1] + ... + data[N-1][N-1].        *)
(***************************************************************************)
C11_TraceIsDiagonalSum ==
    call.op = "trace" => pc = "returned" /\ call.a = DiagonalSum(init, 0)

\* row r of an object: of the matrix, or of both parts of an augmented matrix
RowAt(x, r) ==
    IF IsMatrix(x) THEN <<x.data[r]>> ELSE <<x.left.data[r], x.right.data[r]>>
\* the rows a logged call writes
Written(c) ==
    IF c.op = "swap_rows" THEN {c.i, c.j}
    ELSE IF c.op \in {"scale_row", "add_rows"} THEN {c.i}
    ELSE {}

(***************************************************************************)
(* C12: during the reduction no swap_rows, scale_row or add_rows call      *)
(* writes a row whose index is below the current pivot row, the pivot row  *)
(* never goes back, and so every row below the pivot row, in both parts of *)
(* an augmented matrix, keeps its contents until the reduction returns.    *)
(***************************************************************************)
C12_FinalizedRowsFixed ==
    [][/\ i' >= i
       /\ \A r \in 0..(i - 1) : RowAt(self', r) = RowAt(self, r)
       /\ log' # log => \A r \in Written(log'[Len(log')]) : r >= i]_vars

C12_Witness ==
    /\ ~IsMatrix(self)
    /\ i >= 1
    /\ pc = "for_k"
    /\ Len(log) >= 3
    /\ log[Len(log)].op = "add_rows"
    /\ RowAt(self, 0) # RowAt(init, 0)
    /\ get_right(self).data[1] # get_right(init).data[1]

(***************************************************************************)
(* C13: the reduction never fails by itself, on any input (all-zero, zero  *)
(* columns, more columns than rows): every row index it passes to get_row, *)
(* swap_rows, scale_row and add_rows is < n_rows(), the pivot row never    *)
(* exceeds n_rows(), every column index it reads is within the row that    *)
(* get_row returned, and the pivot value it divides by is never zero.      *)
(***************************************************************************)
C13_NeverFails ==
    /\ pc # "panicked"
    /\ i <= n_rows(self)
    /\ \A n \in 1..Len(log) : InRange(log[n], n_rows(self))
    /\ (pc = "for_k" /\ k < n_rows(self)) =>
           /\ get_row(self, k).ok
           /\ j \in DOMAIN get_row(self, k).val
           /\ ~is_zero(get_row(self, k).val[j]) => i < n_rows(self)
    /\ pc = "scale" =>
           /\ i < n_rows(self)
           /\ get_row(self, i).ok
           /\ j \in DOMAIN get_row(self, i).val
           /\ ~is_zero(get_row(self, i).val[j])

C13_Witness ==
    /\ Done
    /\ n_rows(self) = 2
    /\ n_cols(self) > n_rows(self)
    /\ i = n_rows(self)
    /\ j = n_cols(self)
    /\ \E n \in 1..Len(log) : log[n].op = "swap_rows" /\ log[n].i # log[n].j
====
